---- MODULE Spec2Model ----
(***************************************************************************)
(* Model of backend/server.py of DVD-Agent: the store repository, the job  *)
(* orchestrator (process_search_job and the start endpoints), the event    *)
(* loop the coroutines share, and the Hunter client's rate limiter.        *)
(*                                                                         *)
(* Every coroutine runs on one asyncio event loop.  A coroutine step is    *)
(* the code between two awaits: an action below is "the awaited operation  *)
(* takes effect and returns, then the coroutine runs to its next await".   *)
(* A database operation either takes effect or raises; raising is the      *)
(* only source of exceptions that reach the handlers of the task.          *)
(***************************************************************************)
EXTENDS Integers, Sequences, FiniteSets, TLC

\* ---------------------------------------------------------------- bounds
MaxJobs   == 2      \* jobs that can be started
MaxStores == 2      \* store ids that can be handed out
MaxCands  == 1      \* candidates one collector call returns at most

JobIds   == 1..MaxJobs
StoreIds == 1..MaxStores

NoneV == "None"     \* Python None in a string-valued field
Api   == {}         \* writer tag of the request handlers; a task j is {j}

\* ------------------------------------------------------------- variables
VARIABLES
    dvd_stores,     \* db.dvd_stores: store id -> document
    search_jobs,    \* db.search_jobs: job id -> document
    active_jobs,    \* the module-level dict active_jobs (its key set)
    task,           \* per job: position and locals of process_search_job
    loop_owner,     \* the jobs (one at most) whose synchronous code holds the event loop
    email_req,      \* start_email_discovery between its query and its insert
    next_store_id,  \* uuid4 stand-in: next unused store id
    inserted_by,    \* history: which writer inserted each store id
    disturbed,      \* history: another writer wrote stores while the task ran
    status_log,     \* history: the statuses each job document has stored
    now,            \* the wall clock, in ticks
    request_timestamps, \* hunter_client.request_timestamps
    waiting,        \* calls of _enforce_rate_limit suspended in a sleep
    calls,          \* history: per call, when it was made and dispatched
    api_req,        \* store requests whose handler awaits its database call
    reply,          \* history: the HTTP response the latest watched step sent
    http_calls,     \* calls of _make_request past the rate limiter
    stats_req,      \* get_stats between its awaits: the counts it has so far
    db_reliable     \* environment: no database operation of this run raises

job_vars == <<dvd_stores, search_jobs, active_jobs, task, loop_owner,
              email_req, next_store_id, inserted_by, disturbed, status_log>>

rate_vars == <<now, request_timestamps, waiting, calls>>

api_vars == <<api_req, reply, http_calls, stats_req>>

vars == <<job_vars, rate_vars, api_vars, db_reliable>>

\* ----------------------------------------------------------- data shapes
\* data[f] if the dict has the key f, else the default of the model
FieldOr(data, f, default) == IF f \in DOMAIN data THEN data[f] ELSE default

\* the optional string fields of DVDStore and DVDStoreCreate
OptionalFields == {"address", "city", "state", "phone", "website", "email",
                   "source_url", "notes"}

\* DVDStore(**data) at clock reading t, as .dict(): the fields of data,
\* and the defaults of the pydantic model for the fields data lacks
DVDStore(id, data, t) ==
    [id |-> id, name |-> data.name,
     address |-> FieldOr(data, "address", NoneV),
     city |-> FieldOr(data, "city", NoneV),
     state |-> FieldOr(data, "state", NoneV),
     phone |-> FieldOr(data, "phone", NoneV),
     website |-> FieldOr(data, "website", NoneV),
     email |-> FieldOr(data, "email", NoneV),
     email_confidence |-> <<>>,
     source |-> data.source,
     source_url |-> FieldOr(data, "source_url", NoneV),
     notes |-> FieldOr(data, "notes", NoneV),
     verified |-> FALSE,
     created_at |-> t, updated_at |-> t]

\* SearchJob(job_type=..., parameters=...)
SearchJob(id, job_type, store_ids) ==
    [id |-> id, job_type |-> job_type, status |-> "pending",
     parameters |-> [store_ids |-> store_ids], results |-> <<>>,
     error_message |-> NoneV, completed_at |-> NoneV,
     stores_found |-> 0, credits_used |-> 0]

\* DVDStoreCreate(**body).dict(): every field, None or "manual" where the
\* body gives none
DVDStoreCreate(body) ==
    [f \in OptionalFields |-> FieldOr(body, f, NoneV)] @@
    [name |-> body.name, source |-> FieldOr(body, "source", "manual")]

\* request bodies of POST /stores that the model submits
StoreBodies ==
    { [name |-> "a", website |-> "w"],
      [name |-> "b", city |-> "x", website |-> "w", email |-> "m"] }

StorePayloads == { DVDStoreCreate(body) : body \in StoreBodies }

\* what one collector can return: search_yellow_pages reads a website
\* (and a city, when the page has one), search_yelp and search_reddit
\* give a name only
Candidate(name, city, website, source) ==
    [name |-> name, city |-> city, website |-> website, source |-> source,
     source_url |-> "u"]

CandidatesOf(phase) ==
    CASE phase = "yellow_pages" -> { Candidate("a", NoneV, "w", "yellow_pages") }
      [] phase = "yelp"         -> { Candidate("a", NoneV, NoneV, "yelp") }
      [] OTHER                  -> { Candidate("a", NoneV, NoneV, "reddit") }

SeqsUpTo(S, n) == UNION { [1..k -> S] : k \in 0..n }

CandidateLists(phase) == SeqsUpTo(CandidatesOf(phase), MaxCands)

\* domain-search answers: the best e-mail as <<value, confidence>>
HunterEmails == { <<"h", 90>> }

EmptyResults == [stores |-> <<>>, total_found |-> 0, credits_used |-> 0]

\* locals of one process_search_job call: stores is the list the running
\* collector has built, best the e-mail chosen for the current store,
\* stamp the datetime.utcnow() read for the write the task is about to
\* make; hits is history: the lookups that returned a candidate
NoTask == [pc |-> "none", phase |-> "none", results |-> EmptyResults,
           stores |-> <<>>, idx |-> 0, best |-> <<>>, stamp |-> 0,
           hits |-> 0]

Live(j) == task[j].pc \notin {"none", "done"}

\* history: writer w changed db.dvd_stores
Disturb(w) == [k \in JobIds |-> disturbed[k] \/ (k \notin w /\ Live(k))]

\* the history of a task ends with the task
Forget(j) == [disturbed EXCEPT ![j] = FALSE]

\* history: the document of job j now stores this status
Logged(j, status) == [status_log EXCEPT ![j] = Append(@, status)]

\* ------------------------------------------------------------------ Init
InitState ==
    /\ dvd_stores = <<>>
    /\ search_jobs = <<>>
    /\ active_jobs = {}
    /\ task = [j \in JobIds |-> NoTask]
    /\ loop_owner = {}
    /\ email_req = <<>>
    /\ next_store_id = 1
    /\ inserted_by = <<>>
    /\ disturbed = [j \in JobIds |-> FALSE]
    /\ status_log = [j \in JobIds |-> <<>>]
    /\ now = 0
    /\ request_timestamps = <<>>
    /\ waiting = {}
    /\ calls = <<>>
    /\ api_req = {}
    /\ reply = <<>>
    /\ http_calls = <<>>
    /\ stats_req = <<>>

\* database operations can raise at any time
Init == InitState /\ db_reliable = FALSE

\* a database operation raises
DbRaises == ~db_reliable

\* the event loop can run a coroutine that is ready: a request handler
\* or a task resumed from an await
LoopFree == loop_owner = {}

\* ------------------------------------------------------- store endpoints
\* db.dvd_stores.insert_one(doc) by writer w
InsertStore(doc, w) ==
    /\ next_store_id <= MaxStores
    /\ dvd_stores' = dvd_stores @@ (next_store_id :> doc)
    /\ inserted_by' = inserted_by @@ (next_store_id :> w)
    /\ next_store_id' = next_store_id + 1
    /\ disturbed' = Disturb(w)

\* POST /stores
create_store(store) ==
    /\ LoopFree
    /\ InsertStore(DVDStore(next_store_id, store, now), Api)
    /\ UNCHANGED <<search_jobs, status_log, active_jobs, task, loop_owner, email_req>>
    /\ UNCHANGED <<rate_vars, api_req, http_calls, stats_req, db_reliable>>

\* DELETE /stores/{store_id}; an unknown id answers 404 and changes nothing
delete_store(store_id) ==
    /\ LoopFree
    /\ store_id \in DOMAIN dvd_stores
    /\ dvd_stores' = [s \in DOMAIN dvd_stores \ {store_id} |-> dvd_stores[s]]
    /\ disturbed' = Disturb(Api)
    /\ UNCHANGED <<search_jobs, status_log, active_jobs, task, loop_owner, email_req,
                   next_store_id, inserted_by>>
    /\ UNCHANGED <<rate_vars, api_req, http_calls, stats_req, db_reliable>>

\* --------------------------------------------------------- job endpoints
NewJobId == Cardinality(DOMAIN search_jobs) + 1

\* await db.search_jobs.insert_one(job.dict()); asyncio.create_task(...);
\* active_jobs[job.id] = task -- no await between the last two.  Start
\* requests are served one at a time: none arrives while a
\* start_email_discovery is between its query and its insert.
LaunchJob(job_type, store_ids) ==
    /\ NewJobId <= MaxJobs
    /\ search_jobs' = search_jobs @@ (NewJobId :> SearchJob(NewJobId, job_type, store_ids))
    /\ task' = [task EXCEPT ![NewJobId] = [NoTask EXCEPT !.pc = "load"]]
    /\ active_jobs' = active_jobs \cup {NewJobId}
    /\ status_log' = Logged(NewJobId, "pending")

\* POST /search/directory
start_directory_search ==
    /\ LoopFree
    /\ email_req = <<>>
    /\ LaunchJob("directory_search", <<>>)
    /\ UNCHANGED <<dvd_stores, loop_owner, email_req, next_store_id,
                   inserted_by, disturbed>>
    /\ UNCHANGED <<rate_vars, api_req, http_calls, stats_req, db_reliable>>

\* POST /search/reddit
start_reddit_search ==
    /\ LoopFree
    /\ email_req = <<>>
    /\ LaunchJob("reddit_search", <<>>)
    /\ UNCHANGED <<dvd_stores, loop_owner, email_req, next_store_id,
                   inserted_by, disturbed>>
    /\ UNCHANGED <<rate_vars, api_req, http_calls, stats_req, db_reliable>>

\* the ids of a set of stores in the order the database lists them
RECURSIVE IdList(_)
IdList(S) ==
    IF S = {} THEN <<>>
    ELSE LET m == CHOOSE x \in S : \A y \in S : x <= y
         IN <<m>> \o IdList(S \ {m})

\* variant: the query does not look at the e-mail of a store
StoresLackingEmail_any_email ==
    { s \in DOMAIN dvd_stores : dvd_stores[s].website # NoneV }

\* find({"email": None, "website": {"$ne": None}})
StoresLackingEmail ==
    { s \in DOMAIN dvd_stores :
        dvd_stores[s].email = NoneV /\ dvd_stores[s].website # NoneV }

ToListLimit == 1000     \* .to_list(1000)

\* cursor.to_list(length): the first length documents of the cursor
ToList(cursor, length) ==
    SubSeq(cursor, 1, IF Len(cursor) < length THEN Len(cursor) ELSE length)

\* POST /search/emails, first half: no store_ids given, query the stores
start_email_discovery_query ==
    /\ LoopFree
    /\ email_req = <<>>
    /\ NewJobId <= MaxJobs
    /\ email_req' = << ToList(IdList(StoresLackingEmail), ToListLimit) >>
    /\ UNCHANGED <<dvd_stores, search_jobs, status_log, active_jobs, task, loop_owner,
                   next_store_id, inserted_by, disturbed>>
    /\ UNCHANGED <<rate_vars, api_req, http_calls, stats_req, db_reliable>>

\* POST /search/emails, second half: insert the job and launch its task
start_email_discovery_launch ==
    /\ LoopFree
    /\ email_req # <<>>
    /\ LaunchJob("email_discovery", email_req[1])
    /\ email_req' = <<>>
    /\ UNCHANGED <<dvd_stores, loop_owner, next_store_id, inserted_by, disturbed>>
    /\ UNCHANGED <<rate_vars, api_req, http_calls, stats_req, db_reliable>>

\* POST /search/emails with store_ids given: no query
start_email_discovery_ids(store_ids) ==
    /\ LoopFree
    /\ email_req = <<>>
    /\ LaunchJob("email_discovery", store_ids)
    /\ UNCHANGED <<dvd_stores, loop_owner, email_req, next_store_id,
                   inserted_by, disturbed>>
    /\ UNCHANGED <<rate_vars, api_req, http_calls, stats_req, db_reliable>>

\* store_ids of a POST /search/emails that names its stores
ProvidedIdLists == { <<1>>, <<2, 1>> }

\* ------------------------------------------------- process_search_job(j)
\* variant: the "running" write leaves the status as it was
MarkRunning_skipped(doc) == doc

\* $set of the three writes the task makes to its job document
MarkRunning(doc) == [doc EXCEPT !.status = "running"]

MarkCompleted(doc, results) ==
    [doc EXCEPT !.status = "completed", !.results = <<results>>,
                !.completed_at = "set",
                !.stores_found = results.total_found,
                !.credits_used = results.credits_used]

\* variant: the "failed" write sets no completion timestamp
MarkFailed_without_timestamp(doc) ==
    [doc EXCEPT !.status = "failed", !.error_message = "error"]

MarkFailed(doc) ==
    [doc EXCEPT !.status = "failed", !.error_message = "error",
                !.completed_at = "set"]

\* variant: the task ends without touching the registry
Finally_kept(j) ==
    /\ UNCHANGED active_jobs
    /\ disturbed' = Forget(j)

\* finally: if job_id in active_jobs: del active_jobs[job_id]
Finally(j) ==
    /\ active_jobs' = active_jobs \ {j}
    /\ disturbed' = Forget(j)

\* the coroutine has returned: its locals are gone
Ended == [NoTask EXCEPT !.pc = "done"]

\* the task reaches "for store_data in results['stores']"
EnterStorage(t) ==
    IF Len(t.results.stores) = 0
    THEN [t EXCEPT !.pc = "complete", !.phase = "none"]
    ELSE [t EXCEPT !.pc = "store_check", !.phase = "none", !.idx = 1,
                   !.stamp = now]

\* the storage loop moves to its next candidate or ends
AfterCandidate(t) ==
    IF t.idx < Len(t.results.stores)
    THEN [t EXCEPT !.pc = "store_check", !.idx = @ + 1, !.stamp = now]
    ELSE [t EXCEPT !.pc = "complete"]

\* "for store_id in store_ids" starts, moves on or ends; the storage loop
\* that follows it has nothing to store
EnterEmail(t, store_ids) ==
    IF Len(store_ids) = 0
    THEN [t EXCEPT !.pc = "complete"]
    ELSE [t EXCEPT !.pc = "email_find", !.idx = 1]

NextStoreId(t, store_ids) ==
    IF t.idx < Len(store_ids)
    THEN [t EXCEPT !.pc = "email_find", !.idx = @ + 1, !.best = <<>>]
    ELSE [t EXCEPT !.pc = "complete", !.best = <<>>]

\* job_doc = await db.search_jobs.find_one({"id": job_id})
psj_load(j) ==
    /\ LoopFree
    /\ task[j].pc = "load"
    /\ \/ \* find_one raises: the except clause issues the "failed" write
          /\ DbRaises
          /\ task' = [task EXCEPT ![j].pc = "fail_write"]
          /\ UNCHANGED <<active_jobs, disturbed>>
       \/ \* if not job_doc: return (through finally); else issue "running"
          IF j \in DOMAIN search_jobs
          THEN /\ task' = [task EXCEPT ![j].pc = "set_running"]
               /\ UNCHANGED <<active_jobs, disturbed>>
          ELSE /\ task' = [task EXCEPT ![j] = Ended]
               /\ Finally(j)
    /\ UNCHANGED <<dvd_stores, search_jobs, status_log, loop_owner, email_req,
                   next_store_id, inserted_by>>
    /\ UNCHANGED <<rate_vars, api_vars, db_reliable>>

\* await db.search_jobs.update_one(..., {"$set": {"status": "running"}}),
\* then the branch on job.job_type up to its first await; the collectors
\* are plain function calls, so the task keeps the event loop in them
psj_set_running(j) ==
    /\ LoopFree
    /\ task[j].pc = "set_running"
    /\ \/ \* update_one raises
          /\ DbRaises
          /\ task' = [task EXCEPT ![j].pc = "fail_write"]
          /\ UNCHANGED <<search_jobs, status_log, loop_owner>>
       \/ /\ search_jobs' = [search_jobs EXCEPT ![j] = MarkRunning(@)]
          /\ status_log' = Logged(j, "running")
          /\ LET type == search_jobs[j].job_type IN
             CASE type = "directory_search" ->
                    /\ task' = [task EXCEPT ![j].pc = "fetch",
                                            ![j].phase = "yellow_pages"]
                    /\ loop_owner' = {j}
               [] type = "reddit_search" ->
                    /\ task' = [task EXCEPT ![j].pc = "fetch",
                                            ![j].phase = "reddit"]
                    /\ loop_owner' = {j}
               [] OTHER ->
                    /\ task' = [task EXCEPT ![j] =
                          EnterEmail(@, search_jobs[j].parameters.store_ids)]
                    /\ UNCHANGED loop_owner
    /\ UNCHANGED <<dvd_stores, active_jobs, email_req, next_store_id,
                   inserted_by, disturbed>>
    /\ UNCHANGED <<rate_vars, api_vars, db_reliable>>

\* a collector returns stores to process_search_job: results["stores"]
\* is extended; search_yelp follows search_yellow_pages without an await,
\* and after the last collector the task runs on to its next await
CollectorReturn(j, stores) ==
    LET t == [task[j] EXCEPT !.results.stores = @ \o stores, !.stores = <<>>] IN
    IF task[j].phase = "yellow_pages"
    THEN /\ task' = [task EXCEPT ![j] = [t EXCEPT !.pc = "fetch", !.phase = "yelp"]]
         /\ UNCHANGED loop_owner
    ELSE /\ task' = [task EXCEPT ![j] = EnterStorage(t)]
         /\ loop_owner' = {}

\* self.session.get(...) and the parse, inside a collector
collector_fetch(j) ==
    /\ loop_owner = {j}
    /\ task[j].pc = "fetch"
    /\ \/ \* non-200 answer or an exception: [] is returned, no delay
          CollectorReturn(j, <<>>)
       \/ \* 200: parse, then time.sleep(random.uniform(1, 3))
          \E stores \in CandidateLists(task[j].phase) :
             /\ task' = [task EXCEPT ![j].pc = "courtesy_sleep",
                                     ![j].stores = stores]
             /\ UNCHANGED loop_owner
    /\ UNCHANGED <<dvd_stores, search_jobs, status_log, active_jobs, email_req,
                   next_store_id, inserted_by, disturbed>>
    /\ UNCHANGED <<rate_vars, api_vars, db_reliable>>

\* time.sleep(...) returns and the collector returns its stores
collector_sleep(j) ==
    /\ loop_owner = {j}
    /\ task[j].pc = "courtesy_sleep"
    /\ CollectorReturn(j, task[j].stores)
    /\ UNCHANGED <<dvd_stores, search_jobs, status_log, active_jobs, email_req,
                   next_store_id, inserted_by, disturbed>>
    /\ UNCHANGED <<rate_vars, api_vars, db_reliable>>

SameKey(d1, d2) == d1.name = d2.name /\ d1.city = d2.city

\* variant: the query also matches on the source tag
Existing_per_source(store_data) ==
    \E s \in DOMAIN dvd_stores :
        /\ SameKey(dvd_stores[s], store_data)
        /\ dvd_stores[s].source = store_data.source

\* existing = await db.dvd_stores.find_one({"name": ..., "city": ...})
Existing(store_data) ==
    \E s \in DOMAIN dvd_stores :
        /\ dvd_stores[s].name = store_data.name
        /\ dvd_stores[s].city = store_data.city

\* the find_one of the storage loop returns; "if not existing" issues
\* the insert
psj_store_check(j) ==
    /\ LoopFree
    /\ task[j].pc = "store_check"
    /\ \/ \* find_one raises: logged, next candidate
          /\ DbRaises
          /\ task' = [task EXCEPT ![j] = AfterCandidate(@)]
       \/ IF Existing(task[j].results.stores[task[j].idx])
          THEN task' = [task EXCEPT ![j] = AfterCandidate(@)]
          ELSE task' = [task EXCEPT ![j].pc = "store_insert"]
    /\ UNCHANGED <<dvd_stores, search_jobs, status_log, active_jobs, loop_owner,
                   email_req, next_store_id, inserted_by, disturbed>>
    /\ UNCHANGED <<rate_vars, api_vars, db_reliable>>

\* variant: the insert is an upsert keyed on (name, city), so a record
\* that appeared since the check makes it a no-op
psj_store_insert_unique(j) ==
    /\ LoopFree
    /\ task[j].pc = "store_insert"
    /\ IF Existing(task[j].results.stores[task[j].idx])
       THEN /\ task' = [task EXCEPT ![j] = AfterCandidate(@)]
            /\ UNCHANGED <<dvd_stores, next_store_id, inserted_by, disturbed>>
       ELSE /\ InsertStore(DVDStore(next_store_id,
                                    task[j].results.stores[task[j].idx],
                                    task[j].stamp), {j})
            /\ task' = [task EXCEPT ![j] =
                  AfterCandidate([@ EXCEPT !.results.total_found = @ + 1])]
    /\ UNCHANGED <<search_jobs, status_log, active_jobs, loop_owner, email_req>>
    /\ UNCHANGED <<rate_vars, api_vars, db_reliable>>

\* variant: the insert is not counted
psj_store_insert_uncounted(j) ==
    /\ LoopFree
    /\ task[j].pc = "store_insert"
    /\ \/ /\ DbRaises
          /\ task' = [task EXCEPT ![j] = AfterCandidate(@)]
          /\ UNCHANGED <<dvd_stores, next_store_id, inserted_by, disturbed>>
       \/ /\ InsertStore(DVDStore(next_store_id,
                                  task[j].results.stores[task[j].idx],
                                  task[j].stamp), {j})
          /\ task' = [task EXCEPT ![j] = AfterCandidate(@)]
    /\ UNCHANGED <<search_jobs, status_log, active_jobs, loop_owner, email_req>>
    /\ UNCHANGED <<rate_vars, api_vars, db_reliable>>

\* await db.dvd_stores.insert_one(store.dict()); results["total_found"] += 1
psj_store_insert(j) ==
    /\ LoopFree
    /\ task[j].pc = "store_insert"
    /\ \/ \* insert_one raises: logged, next candidate
          /\ DbRaises
          /\ task' = [task EXCEPT ![j] = AfterCandidate(@)]
          /\ UNCHANGED <<dvd_stores, next_store_id, inserted_by, disturbed>>
       \/ /\ InsertStore(DVDStore(next_store_id,
                                  task[j].results.stores[task[j].idx],
                                  task[j].stamp), {j})
          /\ task' = [task EXCEPT ![j] =
                AfterCandidate([@ EXCEPT !.results.total_found = @ + 1])]
    /\ UNCHANGED <<search_jobs, status_log, active_jobs, loop_owner, email_req>>
    /\ UNCHANGED <<rate_vars, api_vars, db_reliable>>

\* store_doc = await db.dvd_stores.find_one({"id": store_id}); with a
\* website the domain search is called, else the loop moves on
psj_email_find(j) ==
    LET store_ids == search_jobs[j].parameters.store_ids
        store_id  == store_ids[task[j].idx]
    IN
    /\ LoopFree
    /\ task[j].pc = "email_find"
    /\ \/ \* find_one raises: outer except, logged, next store id
          /\ DbRaises
          /\ task' = [task EXCEPT ![j] = NextStoreId(@, store_ids)]
       \/ IF /\ store_id \in DOMAIN dvd_stores
             /\ dvd_stores[store_id].website # NoneV
          THEN task' = [task EXCEPT ![j].pc = "hunter_wait"]
          ELSE task' = [task EXCEPT ![j] = NextStoreId(@, store_ids)]
    /\ UNCHANGED <<dvd_stores, search_jobs, status_log, active_jobs, loop_owner,
                   email_req, next_store_id, inserted_by, disturbed>>
    /\ UNCHANGED <<rate_vars, api_vars, db_reliable>>

\* hunter_client.domain_search(domain, limit=5) returns or raises
psj_hunter_return(j) ==
    /\ LoopFree
    /\ task[j].pc = "hunter_wait"
    /\ \/ \* the client raises, or data.emails is empty: asyncio.sleep(1)
          task' = [task EXCEPT ![j].pc = "pause"]
       \/ \* emails[0] is written to the store
          \E e \in HunterEmails :
             task' = [task EXCEPT ![j].pc = "email_write", ![j].best = e,
                                  ![j].stamp = now, ![j].hits = @ + 1]
    /\ UNCHANGED <<dvd_stores, search_jobs, status_log, active_jobs, loop_owner,
                   email_req, next_store_id, inserted_by, disturbed>>
    /\ UNCHANGED <<rate_vars, api_vars, db_reliable>>

\* variant: the e-mail write replaces the document by a fresh one
SetEmail_replace(doc, best_email, t) ==
    [DVDStore(doc.id, [name |-> doc.name, source |-> doc.source], t)
        EXCEPT !.email = best_email[1],
               !.email_confidence = <<best_email[2], 100>>]

\* variant: the e-mail write sets the confidence and not the address
SetEmail_confidence_only(doc, best_email, t) ==
    [doc EXCEPT !.email_confidence = <<best_email[2], 100>>,
                !.updated_at = t]

\* $set of the e-mail write: confidence / 100 is kept as <<num, den>>
SetEmail(doc, best_email, t) ==
    [doc EXCEPT !.email = best_email[1],
                !.email_confidence = <<best_email[2], 100>>,
                !.updated_at = t]

\* variant: the e-mail write is outside the try blocks of the loop
psj_email_write_unguarded(j) ==
    LET store_id == search_jobs[j].parameters.store_ids[task[j].idx] IN
    /\ LoopFree
    /\ task[j].pc = "email_write"
    /\ \/ /\ DbRaises
          /\ task' = [task EXCEPT ![j].pc = "fail_write"]
          /\ UNCHANGED <<dvd_stores, disturbed>>
       \/ /\ IF store_id \in DOMAIN dvd_stores
             THEN /\ dvd_stores' = [dvd_stores EXCEPT
                                      ![store_id] = SetEmail(@, task[j].best, task[j].stamp)]
                  /\ disturbed' = Disturb({j})
             ELSE UNCHANGED <<dvd_stores, disturbed>>
          /\ task' = [task EXCEPT ![j].pc = "pause",
                                  ![j].results.credits_used = @ + 1]
    /\ UNCHANGED <<search_jobs, status_log, active_jobs, loop_owner, email_req,
                   next_store_id, inserted_by>>
    /\ UNCHANGED <<rate_vars, api_vars, db_reliable>>

\* await db.dvd_stores.update_one({"id": store_id}, {"$set": {...}});
\* results["credits_used"] += 1
psj_email_write(j) ==
    LET store_id == search_jobs[j].parameters.store_ids[task[j].idx] IN
    /\ LoopFree
    /\ task[j].pc = "email_write"
    /\ \/ \* update_one raises: inner except, logged
          /\ DbRaises
          /\ task' = [task EXCEPT ![j].pc = "pause"]
          /\ UNCHANGED <<dvd_stores, disturbed>>
       \/ /\ IF store_id \in DOMAIN dvd_stores
             THEN /\ dvd_stores' = [dvd_stores EXCEPT
                                      ![store_id] = SetEmail(@, task[j].best, task[j].stamp)]
                  /\ disturbed' = Disturb({j})
             ELSE UNCHANGED <<dvd_stores, disturbed>>
          /\ task' = [task EXCEPT ![j].pc = "pause",
                                  ![j].results.credits_used = @ + 1]
    /\ UNCHANGED <<search_jobs, status_log, active_jobs, loop_owner, email_req,
                   next_store_id, inserted_by>>
    /\ UNCHANGED <<rate_vars, api_vars, db_reliable>>

\* await asyncio.sleep(1) returns: next store id
psj_pause(j) ==
    /\ LoopFree
    /\ task[j].pc = "pause"
    /\ task' = [task EXCEPT ![j] =
                  NextStoreId(@, search_jobs[j].parameters.store_ids)]
    /\ UNCHANGED <<dvd_stores, search_jobs, status_log, active_jobs, loop_owner,
                   email_req, next_store_id, inserted_by, disturbed>>
    /\ UNCHANGED <<rate_vars, api_vars, db_reliable>>

\* variant: an exception after the "completed" write sends the task
\* through the except clause
psj_complete_then_raise(j) ==
    /\ LoopFree
    /\ task[j].pc = "complete"
    /\ search_jobs' = [search_jobs EXCEPT
                         ![j] = MarkCompleted(@, task[j].results)]
    /\ status_log' = Logged(j, "completed")
    /\ task' = [task EXCEPT ![j].pc = "fail_write"]
    /\ UNCHANGED <<dvd_stores, active_jobs, loop_owner, email_req,
                   next_store_id, inserted_by, disturbed>>
    /\ UNCHANGED <<rate_vars, api_vars, db_reliable>>

\* the "completed" update_one, then finally
psj_complete(j) ==
    /\ LoopFree
    /\ task[j].pc = "complete"
    /\ \/ \* update_one raises: the except clause issues the "failed" write
          /\ DbRaises
          /\ task' = [task EXCEPT ![j].pc = "fail_write"]
          /\ UNCHANGED <<search_jobs, status_log, active_jobs, disturbed>>
       \/ /\ search_jobs' = [search_jobs EXCEPT
                               ![j] = MarkCompleted(@, task[j].results)]
          /\ status_log' = Logged(j, "completed")
          /\ task' = [task EXCEPT ![j] = Ended]
          /\ Finally(j)
    /\ UNCHANGED <<dvd_stores, loop_owner, email_req, next_store_id,
                   inserted_by>>
    /\ UNCHANGED <<rate_vars, api_vars, db_reliable>>

\* except Exception: the "failed" update_one, then finally; when this
\* update_one raises too the exception leaves the task through finally
psj_fail(j) ==
    /\ LoopFree
    /\ task[j].pc = "fail_write"
    /\ \/ \* update_one raises
          /\ DbRaises
          /\ UNCHANGED <<search_jobs, status_log>>
       \/ /\ search_jobs' = [search_jobs EXCEPT ![j] = MarkFailed(@)]
          /\ status_log' = Logged(j, "failed")
    /\ task' = [task EXCEPT ![j] = Ended]
    /\ Finally(j)
    /\ UNCHANGED <<dvd_stores, loop_owner, email_req, next_store_id,
                   inserted_by>>
    /\ UNCHANGED <<rate_vars, api_vars, db_reliable>>

\* one step of the task of job j
process_search_job(j) ==
    \/ psj_load(j)
    \/ psj_set_running(j)
    \/ collector_fetch(j)
    \/ collector_sleep(j)
    \/ psj_store_check(j)
    \/ psj_store_insert(j)
    \/ psj_email_find(j)
    \/ psj_hunter_return(j)
    \/ psj_email_write(j)
    \/ psj_pause(j)
    \/ psj_complete(j)
    \/ psj_fail(j)

\* ------------------------------- HunterAPIClient._enforce_rate_limit
\* Time is counted in ticks; timestamps, windows and sleeps are whole
\* ticks.  A call that does not sleep runs from its first line to its
\* append without leaving the event loop; a call that sleeps is in
\* waiting until asyncio.sleep returns, at or after its wake-up time.
TicksPerSecond == 2     \* clock resolution
MaxCalls   == 31        \* calls of _enforce_rate_limit under SpecRate
MaxWaiting == 2         \* calls suspended at one time
MaxTime    == 3         \* last tick of the clock under SpecRate

PerMinuteLimit == 500   \* if len(self.request_timestamps) >= 500
PerSecondLimit == 15    \* if len(recent_requests) >= 15
MinuteSeconds  == 60    \* cutoff_time = current_time - 60
SecondSeconds  == 1     \* ts > current_time - 1
SleepSeconds   == 1     \* await asyncio.sleep(1.0)

Minute == MinuteSeconds * TicksPerSecond
Second == SecondSeconds * TicksPerSecond

\* [ts for ts in self.request_timestamps if ts > cutoff_time]
Pruned(timestamps, current_time) ==
    SelectSeq(timestamps, LAMBDA ts : ts > current_time - Minute)

\* len([ts for ts in self.request_timestamps if ts > current_time - 1])
RecentRequests(timestamps, current_time) ==
    Cardinality({ i \in 1..Len(timestamps) :
                    timestamps[i] > current_time - Second })

\* sleep_time = 60 - (current_time - self.request_timestamps[0])
SleepTime(timestamps, current_time) ==
    Minute - (current_time - timestamps[1])

\* history: call id has left _enforce_rate_limit now
Dispatched(id) == [calls EXCEPT ![id].dispatched = <<now>>]

\* variant: the per-second check compares with > where the code has >=
PerSecondCheck_off_by_one(id, current_time, timestamps, log) ==
    IF RecentRequests(timestamps, current_time) > PerSecondLimit
    THEN /\ Cardinality(waiting \ {w \in waiting : w.id = id}) < MaxWaiting
         /\ waiting' = {w \in waiting : w.id # id} \cup
               { [id |-> id, stage |-> "second",
                  wake_at |-> now + SleepSeconds * TicksPerSecond] }
         /\ request_timestamps' = timestamps
         /\ calls' = log
    ELSE /\ waiting' = {w \in waiting : w.id # id}
         /\ request_timestamps' = Append(timestamps, current_time)
         /\ calls' = [log EXCEPT ![id].dispatched = <<now>>]

\* variant: the timestamp is appended before the one-second sleep
PerSecondCheck_records_before_sleep(id, current_time, timestamps, log) ==
    IF RecentRequests(timestamps, current_time) >= PerSecondLimit
    THEN /\ Cardinality(waiting \ {w \in waiting : w.id = id}) < MaxWaiting
         /\ waiting' = {w \in waiting : w.id # id} \cup
               { [id |-> id, stage |-> "second",
                  wake_at |-> now + SleepSeconds * TicksPerSecond] }
         /\ request_timestamps' = Append(timestamps, current_time)
         /\ calls' = log
    ELSE /\ waiting' = {w \in waiting : w.id # id}
         /\ request_timestamps' = Append(timestamps, current_time)
         /\ calls' = [log EXCEPT ![id].dispatched = <<now>>]

\* the per-second check and what follows it, for call id whose
\* current_time was read when it entered: sleep one second, or append
\* current_time and return
PerSecondCheck(id, current_time, timestamps, log) ==
    IF RecentRequests(timestamps, current_time) >= PerSecondLimit
    THEN /\ Cardinality(waiting \ {w \in waiting : w.id = id}) < MaxWaiting
         /\ waiting' = {w \in waiting : w.id # id} \cup
               { [id |-> id, stage |-> "second",
                  wake_at |-> now + SleepSeconds * TicksPerSecond] }
         /\ request_timestamps' = timestamps
         /\ calls' = log
    ELSE /\ waiting' = {w \in waiting : w.id # id}
         /\ request_timestamps' = Append(timestamps, current_time)
         /\ calls' = [log EXCEPT ![id].dispatched = <<now>>]

\* a caller enters _enforce_rate_limit: read the clock, prune, check the
\* per-minute limit (sleep until the first timestamp of the list is 60 s
\* old) and, unless it sleeps there, go on to the per-second check
enforce_rate_limit(max_calls) ==
    LET id           == Len(calls) + 1
        current_time == now
        pruned       == Pruned(request_timestamps, current_time)
        log          == Append(calls, [issued |-> now, dispatched |-> <<>>])
    IN
    /\ Len(calls) < max_calls
    /\ IF /\ Len(pruned) >= PerMinuteLimit
          /\ SleepTime(pruned, current_time) > 0
       THEN /\ Cardinality(waiting) < MaxWaiting
            /\ waiting' = waiting \cup
                  { [id |-> id, stage |-> "minute",
                     wake_at |-> now + SleepTime(pruned, current_time)] }
            /\ request_timestamps' = pruned
            /\ calls' = log
       ELSE PerSecondCheck(id, current_time, pruned, log)
    /\ UNCHANGED <<now, job_vars, api_vars, db_reliable>>

\* asyncio.sleep returns in call w: after the per-minute sleep the
\* per-second check runs on the list as it is now and the current_time
\* read at entry; after the per-second sleep current_time is appended
sleep_returns(w) ==
    /\ w \in waiting
    /\ now >= w.wake_at
    /\ IF w.stage = "minute"
       THEN PerSecondCheck(w.id, calls[w.id].issued, request_timestamps, calls)
       ELSE /\ waiting' = waiting \ {w}
            /\ request_timestamps' =
                  Append(request_timestamps, calls[w.id].issued)
            /\ calls' = Dispatched(w.id)
    /\ UNCHANGED <<now, job_vars, api_vars, db_reliable>>

\* the clock advances
tick(max_time) ==
    /\ now < max_time
    /\ now' = now + 1
    /\ UNCHANGED <<request_timestamps, waiting, calls, job_vars, api_vars,
                   db_reliable>>

\* ------------------------------------------- the store API, watched
\* The handlers with the responses they send.  A handler that reads the
\* clock before it awaits the database is two steps: the request is in
\* api_req between them.
MaxRequests == 2        \* store requests in flight at one time
MaxApiTime  == 1        \* last tick of the clock under SpecApi

\* a response: the request it answers (method, path and, where the
\* request has one, its id or body), the status and the body
Response(request, status, body) ==
    [request |-> request, status |-> status, body |-> body]

\* variant: the listing does not read the stored e-mail
ParseDVDStore_without_email(doc) ==
    [DVDStore(doc.id, doc, doc.created_at) EXCEPT
        !.email = NoneV,
        !.email_confidence = FieldOr(doc, "email_confidence", <<>>),
        !.verified = FieldOr(doc, "verified", FALSE),
        !.updated_at = FieldOr(doc, "updated_at", doc.created_at)]

\* DVDStore(**doc) of a stored document, as the response model returns it
ParseDVDStore(doc) ==
    [DVDStore(doc.id, doc, doc.created_at) EXCEPT
        !.email_confidence = FieldOr(doc, "email_confidence", <<>>),
        !.verified = FieldOr(doc, "verified", FALSE),
        !.updated_at = FieldOr(doc, "updated_at", doc.created_at)]

\* find(filter_dict).skip(skip).limit(limit).to_list(limit), without a
\* filter: the documents in the order of their insertion
FindStores(stores, skip, limit) ==
    LET ids == IdList(DOMAIN stores)
        last == IF skip + limit < Len(ids) THEN skip + limit ELSE Len(ids)
    IN  [i \in 1..(IF last > skip THEN last - skip ELSE 0) |->
            stores[ids[skip + i]]]

\* POST /stores answers with store_obj
create_store_watched(store) ==
    /\ create_store(store)
    /\ reply' = << Response(<<"POST", "/stores", store>>, 200,
                            << DVDStore(next_store_id, store, now) >>) >>

\* GET /stores?skip=..&limit=..
get_stores(skip, limit) ==
    /\ LoopFree
    /\ \/ /\ DbRaises
          /\ reply' = << Response(<<"GET", "/stores">>, 500, <<>>) >>
       \/ reply' = << Response(<<"GET", "/stores">>, 200,
              [i \in DOMAIN FindStores(dvd_stores, skip, limit) |->
                  ParseDVDStore(FindStores(dvd_stores, skip, limit)[i])]) >>
    /\ UNCHANGED <<job_vars, rate_vars, api_req, http_calls, stats_req, db_reliable>>

\* request bodies of PUT /stores/{store_id}: DVDStoreCreate requires name
UpdateBodies == { [name |-> "c", email |-> NoneV] }

\* PUT /stores/{store_id}: update_dict = store_update.dict(exclude_unset=
\* True); update_dict["updated_at"] = datetime.utcnow(); then the await
update_store_begin(store_id, body) ==
    /\ LoopFree
    /\ Cardinality(api_req) < MaxRequests
    /\ api_req' = api_req \cup
          { [request |-> <<"PUT", "/stores/{store_id}", store_id>>,
             store_id |-> store_id,
             update_dict |-> body @@ [updated_at |-> now]] }
    /\ reply' = <<>>
    /\ UNCHANGED <<job_vars, rate_vars, http_calls, stats_req, db_reliable>>

\* POST /stores/{store_id}/verify
verify_store_begin(store_id) ==
    /\ LoopFree
    /\ Cardinality(api_req) < MaxRequests
    /\ api_req' = api_req \cup
          { [request |-> <<"POST", "/stores/{store_id}/verify", store_id>>,
             store_id |-> store_id,
             update_dict |-> [verified |-> TRUE, updated_at |-> now]] }
    /\ reply' = <<>>
    /\ UNCHANGED <<job_vars, rate_vars, http_calls, stats_req, db_reliable>>

\* {"$set": update_dict} on a document
SetFields(doc, update_dict) ==
    [f \in DOMAIN doc |->
        IF f \in DOMAIN update_dict THEN update_dict[f] ELSE doc[f]]

\* variant: find_one_and_update with upsert=True
find_one_and_update_upserts(r) ==
    /\ LoopFree
    /\ r \in api_req
    /\ api_req' = api_req \ {r}
    /\ dvd_stores' =
          IF r.store_id \in DOMAIN dvd_stores
          THEN [dvd_stores EXCEPT ![r.store_id] = SetFields(@, r.update_dict)]
          ELSE dvd_stores @@ (r.store_id :> ([id |-> r.store_id] @@ r.update_dict))
    /\ disturbed' = Disturb(Api)
    /\ reply' = << Response(r.request, 200, << dvd_stores'[r.store_id] >>) >>
    /\ UNCHANGED <<search_jobs, active_jobs, task, loop_owner, email_req,
                   next_store_id, inserted_by, status_log>>
    /\ UNCHANGED <<rate_vars, http_calls, stats_req, db_reliable>>

\* find_one_and_update({"id": store_id}, {"$set": update_dict},
\* return_document=True) returns to update_store or verify_store:
\* "if not result" answers 404, else DVDStore(**result) is returned
find_one_and_update_returns(r) ==
    /\ LoopFree
    /\ r \in api_req
    /\ api_req' = api_req \ {r}
    /\ \/ /\ DbRaises
          /\ reply' = << Response(r.request, 500, <<>>) >>
          /\ UNCHANGED <<dvd_stores, disturbed>>
       \/ IF r.store_id \in DOMAIN dvd_stores
          THEN /\ dvd_stores' = [dvd_stores EXCEPT
                     ![r.store_id] = SetFields(@, r.update_dict)]
               /\ disturbed' = Disturb(Api)
               /\ reply' = << Response(r.request, 200,
                     << ParseDVDStore(SetFields(dvd_stores[r.store_id],
                                                r.update_dict)) >>) >>
          ELSE /\ reply' = << Response(r.request, 404, <<>>) >>
               /\ UNCHANGED <<dvd_stores, disturbed>>
    /\ UNCHANGED <<search_jobs, active_jobs, task, loop_owner, email_req,
                   next_store_id, inserted_by, status_log>>
    /\ UNCHANGED <<rate_vars, http_calls, stats_req, db_reliable>>

\* DELETE /stores/{store_id}: deleted_count == 0 answers 404
delete_store_watched(store_id) ==
    \/ /\ delete_store(store_id)
       /\ reply' = << Response(<<"DELETE", "/stores/{store_id}", store_id>>,
                               200, <<>>) >>
    \/ /\ LoopFree
       /\ store_id \notin DOMAIN dvd_stores
       /\ reply' = << Response(<<"DELETE", "/stores/{store_id}", store_id>>,
                               404, <<>>) >>
       /\ UNCHANGED <<job_vars, rate_vars, api_req, http_calls, stats_req, db_reliable>>

\* the routes of api_router: method and path
Routes ==
    { <<"GET", "/">>, <<"GET", "/hunter/account">>,
      <<"POST", "/stores">>, <<"GET", "/stores">>,
      <<"PUT", "/stores/{store_id}">>, <<"DELETE", "/stores/{store_id}">>,
      <<"POST", "/stores/{store_id}/verify">>,
      <<"POST", "/search/directory">>, <<"POST", "/search/reddit">>,
      <<"POST", "/search/emails">>,
      <<"GET", "/jobs">>, <<"GET", "/jobs/{job_id}">>, <<"GET", "/stats">> }

\* requests a client may send: methods, and paths (two of the routes
\* and one of none)
Methods == {"GET", "PUT"}

Paths == { "/stores", "/stores/{store_id}", "/nothing" }

\* what the router does with a request no route takes: a path that a
\* route has under another method answers 405, any other path 404
Unrouted(method, path) ==
    IF \E r \in Routes : r[2] = path THEN 405 ELSE 404

\* a request for which api_router has no route
request_without_route(method, path) ==
    /\ LoopFree
    /\ <<method, path>> \notin Routes
    /\ reply' = << Response(<<method, path>>, Unrouted(method, path), <<>>) >>
    /\ UNCHANGED <<job_vars, rate_vars, api_req, http_calls, stats_req, db_reliable>>

\* store ids a client can send: ids it was given (uuid4 values cannot be
\* guessed before they are handed out) and an id no store ever has
UnknownId == MaxStores + 1

RequestIds == DOMAIN inserted_by \cup {UnknownId}

NextApi ==
    \/ \E store \in StorePayloads : create_store_watched(store)
    \/ \E skip \in 0..1, limit \in 1..MaxStores : get_stores(skip, limit)
    \/ \E store_id \in RequestIds, body \in UpdateBodies :
          update_store_begin(store_id, body)
    \/ \E store_id \in RequestIds : verify_store_begin(store_id)
    \/ \E r \in api_req : find_one_and_update_returns(r)
    \/ \E store_id \in RequestIds : delete_store_watched(store_id)
    \/ \E method \in Methods, path \in Paths : request_without_route(method, path)
    \/ tick(MaxApiTime)

SpecApi == Init /\ [][NextApi]_vars

\* ------------------------------------ HunterAPIClient._make_request
MaxClientCalls == 3     \* calls of _make_request under SpecClient

\* what the provider answers to one GET: a response with a status code,
\* or the exception httpx raises in its place
StatusCodes == {200, 201, 302, 401, 403, 404, 408, 429, 500, 503}

TimeoutExceptions == {"ConnectTimeout", "ReadTimeout"}

\* httpx.TimeoutException is a subclass of httpx.RequestError
RequestErrors == TimeoutExceptions \cup {"ConnectError", "ReadError"}

Outcomes ==
    { [exception |-> "", status_code |-> c] : c \in StatusCodes } \cup
    { [exception |-> e, status_code |-> 0] : e \in RequestErrors }

HTTPException(status_code, detail) ==
    [raised |-> TRUE, status_code |-> status_code, detail |-> detail]

\* variant: the except clause of httpx.RequestError stands first
make_request_result_request_error_first(outcome) ==
    IF outcome.exception \in RequestErrors
    THEN HTTPException(503, "Network error")
    ELSE IF outcome.exception \in TimeoutExceptions
    THEN HTTPException(408, "Request timeout")
    ELSE IF outcome.status_code = 403
    THEN HTTPException(429, "Rate limit exceeded or insufficient credits")
    ELSE IF outcome.status_code = 401
    THEN HTTPException(401, "Invalid API key")
    ELSE IF outcome.status_code # 200
    THEN HTTPException(outcome.status_code, "API request failed")
    ELSE [raised |-> FALSE, status_code |-> 200, detail |-> "json"]

\* what _make_request does with the outcome of its GET: the exception
\* httpx raised goes through the except clauses in their order, a
\* response through the tests of its status code
make_request_result(outcome) ==
    IF outcome.exception \in TimeoutExceptions
    THEN HTTPException(408, "Request timeout")
    ELSE IF outcome.exception \in RequestErrors
    THEN HTTPException(503, "Network error")
    ELSE IF outcome.status_code = 403
    THEN HTTPException(429, "Rate limit exceeded or insufficient credits")
    ELSE IF outcome.status_code = 401
    THEN HTTPException(401, "Invalid API key")
    ELSE IF outcome.status_code # 200
    THEN HTTPException(outcome.status_code, "API request failed")
    ELSE [raised |-> FALSE, status_code |-> 200, detail |-> "json"]

\* call id has left _enforce_rate_limit: it sends its GET
make_request_get(id) ==
    /\ id \in 1..Len(calls)
    /\ calls[id].dispatched # <<>>
    /\ id \notin DOMAIN http_calls
    /\ http_calls' = http_calls @@
          (id :> [requests |-> 1, outcome |-> <<>>, result |-> <<>>])
    /\ UNCHANGED <<job_vars, rate_vars, api_req, reply, stats_req, db_reliable>>

\* the GET of call id ends with outcome: _make_request returns or raises
make_request_returns(id, outcome) ==
    /\ id \in DOMAIN http_calls
    /\ http_calls[id].result = <<>>
    /\ http_calls' = [http_calls EXCEPT
                        ![id].outcome = <<outcome>>,
                        ![id].result = <<make_request_result(outcome)>>]
    /\ UNCHANGED <<job_vars, rate_vars, api_req, reply, stats_req, db_reliable>>

NextClient ==
    \/ enforce_rate_limit(MaxClientCalls)
    \/ \E id \in 1..MaxClientCalls : make_request_get(id)
    \/ \E id \in 1..MaxClientCalls, outcome \in Outcomes :
          make_request_returns(id, outcome)

SpecClient == Init /\ [][NextClient]_vars

\* ---------------------------------------------- the job API, watched
\* SearchJob(**job) of a stored document, as the response model returns it
ParseSearchJob(doc) ==
    [SearchJob(doc.id, doc.job_type, doc.parameters.store_ids) EXCEPT
        !.status = FieldOr(doc, "status", "pending"),
        !.results = FieldOr(doc, "results", <<>>),
        !.error_message = FieldOr(doc, "error_message", NoneV),
        !.completed_at = FieldOr(doc, "completed_at", NoneV),
        !.stores_found = FieldOr(doc, "stores_found", 0),
        !.credits_used = FieldOr(doc, "credits_used", 0)]

\* return {"job_id": job.id, "status": "started"}
Started(path) ==
    <<Response(<<"POST", path>>, 200,
               <<[job_id |-> NewJobId, status |-> "started"]>>)>>

start_directory_search_watched ==
    /\ start_directory_search
    /\ reply' = Started("/search/directory")

start_reddit_search_watched ==
    /\ start_reddit_search
    /\ reply' = Started("/search/reddit")

\* return {"job_id": ..., "status": "started", "stores_to_process": ...}
start_email_discovery_launch_watched ==
    /\ start_email_discovery_launch
    /\ reply' = <<[Started("/search/emails")[1] EXCEPT
                     !.body = <<@[1] @@
                                [stores_to_process |-> Len(email_req[1])]>>]>>

\* variant: a job that is not found is answered with an empty record
get_search_job_answers_missing(job_id) ==
    /\ LoopFree
    /\ LET request == <<"GET", "/jobs/{job_id}", job_id>>
       IN  \/ /\ DbRaises
              /\ reply' = <<Response(request, 500, <<>>)>>
           \/ reply' = IF job_id \in DOMAIN search_jobs
                       THEN <<Response(request, 200,
                                <<ParseSearchJob(search_jobs[job_id])>>)>>
                       ELSE <<Response(request, 200, <<>>)>>
    /\ UNCHANGED <<job_vars, rate_vars, api_req, http_calls, stats_req, db_reliable>>

\* GET /jobs/{job_id}
get_search_job(job_id) ==
    /\ LoopFree
    /\ LET request == <<"GET", "/jobs/{job_id}", job_id>>
       IN  \/ /\ DbRaises
              /\ reply' = <<Response(request, 500, <<>>)>>
           \/ reply' = IF job_id \in DOMAIN search_jobs
                       THEN <<Response(request, 200,
                                <<ParseSearchJob(search_jobs[job_id])>>)>>
                       ELSE <<Response(request, 404, <<>>)>>
    /\ UNCHANGED <<job_vars, rate_vars, api_req, http_calls, stats_req, db_reliable>>

\* job ids a client can ask for: the ids the start endpoints hand out,
\* before and after they do, and an id no job ever has
JobRequestIds == 1..(MaxJobs + 1)

NextJobs ==
    \/ start_directory_search_watched
    \/ start_reddit_search_watched
    \/ start_email_discovery_query /\ UNCHANGED reply
    \/ start_email_discovery_launch_watched
    \/ \E job_id \in JobRequestIds : get_search_job(job_id)
    \/ \E j \in JobIds : process_search_job(j)

SpecJobs == Init /\ [][NextJobs]_vars

\* --------------------------------------------------------- GET /stats
RecentJobsLimit == 5    \* .limit(5).to_list(5)

\* db.dvd_stores.count_documents(filter), for the three filters of
\* get_stats: {}, {"verified": True}, {"email": {"$ne": None}}
CountAll == Cardinality(DOMAIN dvd_stores)

CountVerified ==
    Cardinality({ s \in DOMAIN dvd_stores : dvd_stores[s].verified = TRUE })

CountWithEmail ==
    Cardinality({ s \in DOMAIN dvd_stores : dvd_stores[s].email # NoneV })

\* a list in reverse order
Reversed(seq) == [i \in 1..Len(seq) |-> seq[Len(seq) + 1 - i]]

\* db.search_jobs.find().sort("created_at", -1).limit(5).to_list(5): ids
\* grow with the time of creation
RecentJobs ==
    LET ids == ToList(Reversed(IdList(DOMAIN search_jobs)), RecentJobsLimit)
    IN  [i \in 1..Len(ids) |-> search_jobs[ids[i]]]

\* what hunter_client.get_account_info() gives get_stats: calls.left of
\* the account as <<left>>, or <<>> for "unknown" when the call raises
CreditsRemaining == { <<>>, <<50>> }

StatsRequest == <<"GET", "/stats">>

\* an awaited database call of get_stats raises: the request ends
StatsFails ==
    /\ DbRaises
    /\ stats_req' = <<>>
    /\ reply' = <<Response(StatsRequest, 500, <<>>)>>

\* total_stores = await db.dvd_stores.count_documents({})
stats_total ==
    /\ LoopFree
    /\ stats_req = <<>>
    /\ \/ StatsFails
       \/ /\ stats_req' =
                <<[pc |-> "verified",
                   total_stores |-> CountAll]>>
          /\ reply' = <<>>
    /\ UNCHANGED <<job_vars, rate_vars, api_req, http_calls, db_reliable>>

\* verified_stores = await db.dvd_stores.count_documents({"verified": True})
stats_verified ==
    /\ LoopFree
    /\ stats_req # <<>>
    /\ stats_req[1].pc = "verified"
    /\ \/ StatsFails
       \/ /\ stats_req' =
                <<[pc |-> "emails"] @@ stats_req[1] @@
                  [verified_stores |-> CountVerified]>>
          /\ UNCHANGED reply
    /\ UNCHANGED <<job_vars, rate_vars, api_req, http_calls, db_reliable>>

\* stores_with_emails = await db.dvd_stores.count_documents(
\* {"email": {"$ne": None}}); active_job_count = len(active_jobs)
stats_emails ==
    /\ LoopFree
    /\ stats_req # <<>>
    /\ stats_req[1].pc = "emails"
    /\ \/ StatsFails
       \/ /\ stats_req' =
                <<[pc |-> "recent_jobs"] @@ stats_req[1] @@
                  [stores_with_emails |-> CountWithEmail,
                   active_jobs |-> Cardinality(active_jobs)]>>
          /\ UNCHANGED reply
    /\ UNCHANGED <<job_vars, rate_vars, api_req, http_calls, db_reliable>>

\* recent_jobs = await db.search_jobs.find()...to_list(5)
stats_recent_jobs ==
    /\ LoopFree
    /\ stats_req # <<>>
    /\ stats_req[1].pc = "recent_jobs"
    /\ \/ StatsFails
       \/ /\ stats_req' =
                <<[pc |-> "account"] @@ stats_req[1] @@
                  [recent_jobs |-> RecentJobs]>>
          /\ UNCHANGED reply
    /\ UNCHANGED <<job_vars, rate_vars, api_req, http_calls, db_reliable>>

\* hunter_client.get_account_info() returns or raises; the handler
\* returns the statistics
stats_account(credits_remaining) ==
    /\ LoopFree
    /\ stats_req # <<>>
    /\ stats_req[1].pc = "account"
    /\ stats_req' = <<>>
    /\ reply' = <<Response(StatsRequest, 200,
                    <<[total_stores |-> stats_req[1].total_stores,
                       verified_stores |-> stats_req[1].verified_stores,
                       stores_with_emails |-> stats_req[1].stores_with_emails,
                       active_jobs |-> stats_req[1].active_jobs,
                       credits_remaining |-> credits_remaining,
                       recent_jobs |-> stats_req[1].recent_jobs]>>)>>
    /\ UNCHANGED <<job_vars, rate_vars, api_req, http_calls, db_reliable>>

get_stats ==
    \/ stats_total
    \/ stats_verified
    \/ stats_emails
    \/ stats_recent_jobs
    \/ \E credits_remaining \in CreditsRemaining : stats_account(credits_remaining)

\* statistics are asked for while stores are created, verified and deleted
NextStats ==
    \/ \E store \in StorePayloads : create_store(store) /\ UNCHANGED reply
    \/ \E store_id \in RequestIds : verify_store_begin(store_id)
    \/ \E r \in api_req : find_one_and_update_returns(r)
    \/ \E store_id \in StoreIds : delete_store(store_id) /\ UNCHANGED reply
    \/ get_stats

SpecStats == Init /\ [][NextStats]_vars

\* ---------------------------------------------------------- specification
Next ==
    \/ \E store \in StorePayloads : create_store(store) /\ UNCHANGED reply
    \/ \E store_id \in StoreIds : delete_store(store_id) /\ UNCHANGED reply
    \/ start_directory_search /\ UNCHANGED reply
    \/ start_reddit_search /\ UNCHANGED reply
    \/ start_email_discovery_query /\ UNCHANGED reply
    \/ start_email_discovery_launch /\ UNCHANGED reply
    \/ \E store_ids \in ProvidedIdLists :
          start_email_discovery_ids(store_ids) /\ UNCHANGED reply
    \/ \E j \in JobIds : process_search_job(j)

Spec == Init /\ [][Next]_vars

\* any callers of the shared client, at any times
NextRate ==
    \/ enforce_rate_limit(MaxCalls)
    \/ \E w \in waiting : sleep_returns(w)
    \/ tick(MaxTime)

SpecRate == Init /\ [][NextRate]_vars

\* a sustained load on the shared client: one call, a pause of any
\* length, then callers as fast as the limiter lets them through, each
\* sleep returning on time
MaxCallsMinute == PerMinuteLimit + MaxWaiting
MaxTimeMinute  == Minute + TicksPerSecond

WouldSleepForMinute ==
    LET pruned == Pruned(request_timestamps, now)
    IN  /\ Len(pruned) >= PerMinuteLimit
        /\ SleepTime(pruned, now) > 0

WouldPass ==
    /\ ~WouldSleepForMinute
    /\ RecentRequests(Pruned(request_timestamps, now), now) < PerSecondLimit

Admissible ==
    /\ Len(calls) < MaxCallsMinute
    /\ \/ WouldPass
       \/ WouldSleepForMinute /\ Cardinality(waiting) < MaxWaiting

NextMinute ==
    \/ Admissible /\ enforce_rate_limit(MaxCallsMinute)
    \/ \E w \in waiting : sleep_returns(w)
    \/ /\ Len(calls) = 1 \/ ~Admissible
       /\ \A w \in waiting : w.wake_at > now
       /\ tick(MaxTimeMinute)

SpecMinute == Init /\ [][NextMinute]_vars

\* the scheduler runs every task that is ready: asyncio resumes each
\* coroutine whose awaited operation has finished
SpecFair == Spec /\ \A j \in JobIds : WF_vars(process_search_job(j))

\* the e-mail discovery scenario: stores are created, POST /search/emails
\* comes without store ids, reddit searches run beside it; runs with a
\* database that can fail and runs with one that cannot, under the same
\* scheduling
InitEither == InitState /\ db_reliable \in BOOLEAN

NextEmails ==
    \/ \E store \in StorePayloads : create_store(store) /\ UNCHANGED reply
    \/ start_reddit_search /\ UNCHANGED reply
    \/ start_email_discovery_query /\ UNCHANGED reply
    \/ start_email_discovery_launch /\ UNCHANGED reply
    \/ \E j \in JobIds : process_search_job(j)

SpecEmails ==
    InitEither /\ [][NextEmails]_vars
               /\ \A j \in JobIds : WF_vars(process_search_job(j))

\* every endpoint and task of the job orchestrator, in runs with a
\* database that can fail and in runs with one that cannot
SpecEither == InitEither /\ [][Next]_vars

\* ================================================================ claims
Terminal == {"completed", "failed"}

StatusOf(jobs, j) == IF j \in DOMAIN jobs THEN jobs[j].status ELSE "absent"

InCollector(j) == task[j].pc \in {"fetch", "courtesy_sleep"}

\* C1: once the stored status of a job is completed or failed, no step of
\* any task or request handler changes any field of that job document.
C1_TerminalIsFinal ==
    [][\A j \in DOMAIN search_jobs :
          search_jobs[j].status \in Terminal
              => search_jobs'[j] = search_jobs[j]]_vars

\* a job is terminal while the task of another job is still at work
C1_Witness ==
    \E j, k \in DOMAIN search_jobs :
        /\ search_jobs[j].status \in Terminal
        /\ search_jobs[k].status = "running"
        /\ task[k].pc \in {"store_insert", "email_write"}

C3_EveryJobTerminates ==
    \A j \in JobIds :
        [](j \in DOMAIN search_jobs
             => <>(StatusOf(search_jobs, j) \in Terminal))

\* number of calls that left _enforce_rate_limit in the trailing window
DispatchedWithin(window) ==
    Cardinality({ i \in 1..Len(calls) :
                    /\ calls[i].dispatched # <<>>
                    /\ calls[i].dispatched[1] > now - window })

\* C4: for any interleaving of callers, at most 15 requests leave
\* _enforce_rate_limit within any trailing 1-second window
C4_AtMost15PerSecond == DispatchedWithin(Second) <= PerSecondLimit

\* C5: for any interleaving of callers, at most 500 requests leave
\* _enforce_rate_limit within any trailing 60-second window
C5_AtMost500PerMinute == DispatchedWithin(Minute) <= PerMinuteLimit

\* calls issued before call i and within the second that ends with it
IssuedInSecondBefore(i) ==
    { k \in 1..(i - 1) : calls[k].issued > calls[i].issued - Second }

IssuedInMinuteBefore(i) ==
    { k \in 1..(i - 1) : calls[k].issued > calls[i].issued - Minute }

Unsuspended(k) == calls[k].dispatched = <<calls[k].issued>>

\* C6: a call issued when fewer than 15 calls were issued in the second
\* before it (and fewer than 500 in the minute before it) is dispatched
\* without suspension; a call issued when 15 calls of the second before
\* it were dispatched without suspension is dispatched no sooner than one
\* second after it was issued.  So of 16 calls issued within one second
\* to an idle limiter the first 15 are not suspended and the 16th is
\* suspended for at least one second.
C6_SixteenthCallDelayed ==
    \A i \in 1..Len(calls) :
        /\ ( /\ Cardinality(IssuedInSecondBefore(i)) < PerSecondLimit
             /\ Cardinality(IssuedInMinuteBefore(i)) < PerMinuteLimit )
           => Unsuspended(i)
        /\ Cardinality({ k \in IssuedInSecondBefore(i) : Unsuspended(k) })
              >= PerSecondLimit
           => \/ calls[i].dispatched = <<>>
              \/ calls[i].dispatched[1] >=
                    calls[i].issued + SleepSeconds * TicksPerSecond

C6_Witness ==
    /\ Len(calls) >= PerSecondLimit + 1
    /\ calls[PerSecondLimit + 1].issued - calls[1].issued < Second
    /\ \A k \in 1..PerSecondLimit : Unsuspended(k)
    /\ calls[PerSecondLimit + 1].dispatched # <<>>
    /\ calls[PerSecondLimit + 1].dispatched[1] >=
          calls[PerSecondLimit + 1].issued + SleepSeconds * TicksPerSecond

\* C7: while a task is the only writer of the stores, no record it
\* inserted shares (name, city) with any other stored record: a candidate
\* is inserted only when no such record exists and later candidates with
\* the same pair are dropped.
C7_NoDuplicateWithinTask ==
    \A j \in JobIds :
        (Live(j) /\ ~disturbed[j]) =>
            \A s1 \in DOMAIN dvd_stores :
                inserted_by[s1] = {j} =>
                    \A s2 \in DOMAIN dvd_stores \ {s1} :
                        ~SameKey(dvd_stores[s1], dvd_stores[s2])

\* an undisturbed task has gone through two candidates with the same
\* (name, city) and stored one of them
C7_Witness ==
    \E j \in JobIds :
        /\ ~disturbed[j]
        /\ task[j].pc = "complete"
        /\ Len(task[j].results.stores) = 2
        /\ SameKey(task[j].results.stores[1], task[j].results.stores[2])
        /\ task[j].results.total_found = 1
        /\ \E s \in DOMAIN dvd_stores : inserted_by[s] = {j}

\* two stored records with one (name, city), inserted by two jobs
DuplicateByJobs ==
    \E s1, s2 \in DOMAIN dvd_stores :
        /\ s1 # s2
        /\ SameKey(dvd_stores[s1], dvd_stores[s2])
        /\ inserted_by[s1] # Api
        /\ inserted_by[s2] # Api
        /\ inserted_by[s1] # inserted_by[s2]

\* C8: a task whose existence check found nothing still inserts when the
\* task of another job has stored the same (name, city) in between: from
\* every such state (with a store id left) its insert step leads to two
\* stored records for one (name, city).
C8_CheckThenInsertRaces ==
    \A j \in JobIds :
        ( /\ task[j].pc = "store_insert"
          /\ next_store_id <= MaxStores
          /\ \E s \in DOMAIN dvd_stores :
                /\ SameKey(dvd_stores[s], task[j].results.stores[task[j].idx])
                /\ inserted_by[s] \notin {Api, {j}} )
        => ENABLED (psj_store_insert(j) /\ DuplicateByJobs')

\* the duplicate is there
C8_Witness == DuplicateByJobs

\* C9: a task that has ended (completed, failed, or left by an exception)
\* is not in active_jobs, and only started jobs ever are.
C9_EndedTaskNotRegistered ==
    \A j \in JobIds :
        /\ task[j].pc = "done" => j \notin active_jobs
        /\ j \in active_jobs => Live(j)

\* tasks have ended in each way: completed, failed, and with the
\* exception of the failed write leaving the task
C9_Witness ==
    \E j, k \in JobIds :
        /\ task[j].pc = "done" /\ task[k].pc = "done"
        /\ search_jobs[j].status = "running"
        /\ search_jobs[k].status = "completed"
        /\ active_jobs = {}

\* C10 as stated: while a job is inside a collector call the event loop
\* can run a request handler.
C10_ServedDuringCollector ==
    \A j \in JobIds : InCollector(j) => LoopFree

\* the task is inside "for store_id in store_ids"
EmailPcs == {"email_find", "hunter_wait", "email_write", "pause"}

EmailJob(j) ==
    j \in DOMAIN search_jobs /\ search_jobs[j].job_type = "email_discovery"

\* C11: no step of the e-mail loop, a failed store lookup, client call or
\* store write included, sends the job to failed: the task stays in the
\* loop with status running, at the same store id or the next one, and
\* leaves the loop only after the last store id, for the completed write
C11_StoreFailureSkipped ==
    [][\A j \in JobIds :
          task[j].pc \in EmailPcs =>
             LET n == Len(search_jobs[j].parameters.store_ids) IN
             /\ task'[j].pc \in EmailPcs \cup {"complete"}
             /\ search_jobs'[j].status = "running"
             /\ task'[j].pc = "complete" => task[j].idx = n
             /\ task'[j].pc # "complete" =>
                   \/ task'[j].idx = task[j].idx
                   \/ task'[j].idx = task[j].idx + 1 /\ task'[j].pc = "email_find"
      ]_vars

C11_Witness ==
    \E j \in JobIds :
        /\ EmailJob(j)
        /\ task[j].pc = "email_find"
        /\ task[j].idx = 2
        /\ task[j].hits = 1
        /\ task[j].results.credits_used = 0

\* C12: a step of an email_discovery task leaves the set of store ids as
\* it is and changes at most the store it is working on, and of that
\* store only email, email_confidence (confidence / 100) and updated_at
C12_OnlyEmailFields ==
    [][\A j \in JobIds :
          (EmailJob(j) /\ task'[j] # task[j]) =>
             /\ DOMAIN dvd_stores' = DOMAIN dvd_stores
             /\ \A s \in DOMAIN dvd_stores :
                   \/ dvd_stores'[s] = dvd_stores[s]
                   \/ /\ task[j].pc = "email_write"
                      /\ s = search_jobs[j].parameters.store_ids[task[j].idx]
                      /\ dvd_stores'[s] =
                            [dvd_stores[s] EXCEPT
                               !.email = task[j].best[1],
                               !.email_confidence = <<task[j].best[2], 100>>,
                               !.updated_at = dvd_stores'[s].updated_at]
      ]_vars

C12_Witness ==
    \E j \in JobIds : \E s \in DOMAIN dvd_stores :
        /\ EmailJob(j)
        /\ task[j].pc = "pause"
        /\ task[j].results.credits_used = 1
        /\ search_jobs[j].parameters.store_ids[task[j].idx] = s
        /\ dvd_stores[s].email = "h"
        /\ dvd_stores[s].email_confidence = <<90, 100>>
        /\ dvd_stores[s].website = "w"
        /\ Cardinality(DOMAIN dvd_stores) = 2

\* C13: the credits_used stored when an email_discovery job completes is
\* the number of its stores whose lookup returned a candidate
C13_CreditsCountLookups ==
    [][\A j \in JobIds :
          (/\ EmailJob(j)
           /\ search_jobs[j].status # "completed"
           /\ search_jobs'[j].status = "completed") =>
             search_jobs'[j].credits_used = task[j].hits
      ]_vars

\* C14: with a database that does not fail, every email_discovery job
\* reaches status completed; when the provider returned a candidate for
\* a store the task writes its address to that store, and when it
\* returned none (or an error) the task leaves the stores as they are
C14_EmailScenario ==
    /\ \A j \in JobIds :
          [](db_reliable /\ EmailJob(j)
                => <>(StatusOf(search_jobs, j) = "completed"))
    /\ [][\A j \in JobIds :
            (db_reliable /\ EmailJob(j) /\ task'[j] # task[j]) =>
               LET s == search_jobs[j].parameters.store_ids[task[j].idx] IN
               /\ (task[j].pc = "email_write" /\ s \in DOMAIN dvd_stores)
                     => dvd_stores'[s].email = task[j].best[1]
               /\ task[j].pc # "email_write" => dvd_stores' = dvd_stores
        ]_vars

C14_Witness ==
    \E j \in JobIds :
        /\ db_reliable
        /\ EmailJob(j)
        /\ search_jobs[j].parameters.store_ids = <<2>>
        /\ status_log[j] = <<"pending", "running", "completed">>
        /\ search_jobs[j].credits_used = 1
        /\ 2 \in DOMAIN dvd_stores
        /\ dvd_stores[2].email = "h"
        /\ dvd_stores[2].website = "w"

\* the step sends a response to a request of this method and path (a
\* step of the clock sends none)
Answers(method, path) ==
    /\ reply' # <<>>
    /\ now' = now
    /\ reply'[1].request[1] = method
    /\ reply'[1].request[2] = path

\* C15: a POST /stores that succeeds adds exactly one record, under an id
\* no record ever had, with verified = false and the fields of the
\* payload; no other record changes, and a listing of the stores after
\* it returns the record with these values
C15_CreateAddsOneRecord ==
    [][(Answers("POST", "/stores") /\ reply'[1].status = 200) =>
          LET store == reply'[1].request[3]
              rec   == reply'[1].body[1]
              list  == FindStores(dvd_stores', 0, MaxStores)
          IN
          /\ rec.id \notin DOMAIN dvd_stores
          /\ rec.id \notin DOMAIN inserted_by
          /\ DOMAIN dvd_stores' = DOMAIN dvd_stores \cup {rec.id}
          /\ \A s \in DOMAIN dvd_stores : dvd_stores'[s] = dvd_stores[s]
          /\ rec.verified = FALSE
          /\ \A f \in DOMAIN store : rec[f] = store[f]
          /\ \E i \in DOMAIN list : ParseDVDStore(list[i]) = rec
      ]_vars

C15_Witness ==
    /\ reply # <<>>
    /\ reply[1].request = <<"GET", "/stores">>
    /\ reply[1].status = 200
    /\ \E i \in DOMAIN reply[1].body :
          /\ reply[1].body[i].name = "b"
          /\ reply[1].body[i].email = "m"
          /\ reply[1].body[i].city = "x"
          /\ reply[1].body[i].verified = FALSE
          /\ reply[1].body[i] = ParseDVDStore(dvd_stores[reply[1].body[i].id])

\* C16: a PUT /stores/{id} that finds its store sets the fields of the
\* payload, leaves every other field but updated_at as it was, and sets
\* updated_at to a timestamp that is not earlier than the one it
\* replaces (the claim says later; the clock of the model is coarse, so
\* two readings can be equal)
C16_PartialUpdate ==
    [][(Answers("PUT", "/stores/{store_id}") /\ reply'[1].status = 200) =>
          \E r \in api_req :
             /\ api_req' = api_req \ {r}
             /\ r.request = reply'[1].request
             /\ LET before == dvd_stores[r.store_id]
                    after  == dvd_stores'[r.store_id]
                IN
                /\ \A f \in DOMAIN before :
                      \/ f = "updated_at"
                      \/ f \in DOMAIN r.update_dict /\ after[f] = r.update_dict[f]
                      \/ f \notin DOMAIN r.update_dict /\ after[f] = before[f]
                /\ after.updated_at >= before.updated_at
      ]_vars

C19_GetMissingStoreIs404 ==
    (/\ reply # <<>>
     /\ reply[1].request[1] = "GET"
     /\ reply[1].request[2] = "/stores/{store_id}")
       => reply[1].status = 404

\* the kind of outcome the provider gave, in the terms of the claim
OutcomeClass(o) ==
    IF o.exception \in TimeoutExceptions THEN "timeout"
    ELSE IF o.exception # "" THEN "network"
    ELSE IF o.status_code = 401 THEN "401"
    ELSE IF o.status_code = 403 THEN "403"
    ELSE IF o.status_code \in 200..299 THEN "2xx"
    ELSE "other"

Finished == { id \in DOMAIN http_calls : http_calls[id].result # <<>> }

\* C18: every call of the client that has sent its request has sent
\* exactly one, also after its outcome is known (no retry), and the
\* outcome decides the error: provider 401 raises 401 "Invalid API key",
\* provider 403 raises 429 "Rate limit exceeded or insufficient
\* credits", a timeout raises 408 "Request timeout", another network
\* failure raises 503 "Network error", any other status outside 2xx
\* raises "API request failed" with the provider's status; outcomes of
\* two different kinds never raise the same error
C18_ClientMapsOutcomes ==
    /\ \A id \in DOMAIN http_calls : http_calls[id].requests = 1
    /\ \A id \in Finished :
          LET o == http_calls[id].outcome[1]
              e == http_calls[id].result[1]
          IN
          /\ OutcomeClass(o) = "401" =>
                e = HTTPException(401, "Invalid API key")
          /\ OutcomeClass(o) = "403" =>
                e = HTTPException(429, "Rate limit exceeded or insufficient credits")
          /\ OutcomeClass(o) = "timeout" =>
                e = HTTPException(408, "Request timeout")
          /\ OutcomeClass(o) = "network" =>
                e = HTTPException(503, "Network error")
          /\ OutcomeClass(o) = "other" =>
                e = HTTPException(o.status_code, "API request failed")
    /\ \A a, b \in Finished :
          OutcomeClass(http_calls[a].outcome[1]) #
             OutcomeClass(http_calls[b].outcome[1])
          => http_calls[a].result # http_calls[b].result

\* three calls are over: one timed out, one could not connect, and one
\* was answered 503 by the provider
C18_Witness ==
    /\ Finished = 1..MaxClientCalls
    /\ \E a, b, c \in Finished :
          /\ http_calls[a].outcome[1].exception = "ReadTimeout"
          /\ http_calls[a].result[1].status_code = 408
          /\ http_calls[b].outcome[1].exception = "ConnectError"
          /\ http_calls[b].result[1].status_code = 503
          /\ http_calls[c].outcome[1].status_code = 503
          /\ http_calls[c].result[1].detail = "API request failed"
          /\ \A id \in {a, b, c} : http_calls[id].requests = 1

\* the step is the answer to GET /jobs/{job_id}: the handler changes
\* nothing of the jobs
AnswersJob ==
    /\ Answers("GET", "/jobs/{job_id}")
    /\ UNCHANGED job_vars

\* the step is the answer of a start endpoint
AnswersStart ==
    /\ reply' # reply
    /\ \E path \in {"/search/directory", "/search/reddit", "/search/emails"} :
          Answers("POST", path)

\* a GET /jobs/{job_id} served now can answer 200
Retrievable(job_id) ==
    ENABLED (get_search_job(job_id) /\ reply'[1].status = 200)

\* C20: GET /jobs/{id} answers 200 with the stored record when a job with
\* that id has been created and 404 when none has (500 when the database
\* call raises); the job_id a start endpoint returns is new and its
\* record is stored from that step on, no record ever disappears and
\* every stored record can be fetched whenever the event loop is free; a
\* task that has not yet read its record has one, and its first step
\* never takes the return for a missing record
C20_JobRetrievable ==
    /\ [][AnswersJob =>
            LET job_id == reply'[1].request[3] IN
            \/ /\ reply'[1].status = 200
               /\ job_id \in DOMAIN search_jobs
               /\ reply'[1].body = <<search_jobs[job_id]>>
               /\ reply'[1].body[1].id = job_id
            \/ /\ reply'[1].status = 404
               /\ job_id \notin DOMAIN search_jobs
            \/ /\ reply'[1].status = 500
               /\ DbRaises
         ]_vars
    /\ [][AnswersStart =>
            /\ reply'[1].status = 200
            /\ reply'[1].body[1].job_id \notin DOMAIN search_jobs
            /\ reply'[1].body[1].job_id \in DOMAIN search_jobs'
            /\ search_jobs'[reply'[1].body[1].job_id].id = reply'[1].body[1].job_id
         ]_vars
    /\ [](\A job_id \in DOMAIN search_jobs : LoopFree => Retrievable(job_id))
    /\ [][DOMAIN search_jobs \subseteq DOMAIN search_jobs']_vars
    /\ [](\A j \in JobIds : task[j].pc = "load" => j \in DOMAIN search_jobs)
    /\ [][\A j \in JobIds :
            task[j].pc = "load" /\ task'[j].pc # "load"
            => task'[j].pc \in {"set_running", "fail_write"}
         ]_vars

\* the record of job 2, an e-mail job, is returned while its task has not
\* yet run its first step, and the record of job 1 is still there
C20_Witness ==
    /\ reply # <<>>
    /\ reply[1].request = <<"GET", "/jobs/{job_id}", 2>>
    /\ reply[1].status = 200
    /\ reply[1].body[1].job_type = "email_discovery"
    /\ reply[1].body[1].status = "pending"
    /\ task[2].pc = "load"
    /\ 1 \in DOMAIN search_jobs

\* the tasks whose update_one of store s is issued and has not returned
JobWriters(s) ==
    { j \in JobIds :
        /\ task[j].pc = "email_write"
        /\ search_jobs[j].parameters.store_ids[task[j].idx] = s }

\* the requests whose find_one_and_update of store s is issued and has
\* not returned
ApiWriters(s) == { r \in api_req : r.store_id = s }

\* C21: at no time do two operations in flight (two tasks, or a task and
\* an update or verify request) both have a write issued against the
\* same store record
C21_OneWriterPerStore ==
    \A s \in StoreIds :
        Cardinality(JobWriters(s)) + Cardinality(ApiWriters(s)) <= 1

\* the task of job j is inside an external call: a collector's request
\* or the domain search of the Hunter client
InExternalCall(j) == InCollector(j) \/ task[j].pc = "hunter_wait"

\* C22: a job whose task is inside an external call has a stored status
\* other than pending: "running" was written before the call began, and
\* a step that begins an external call never starts from pending
C22_RunningBeforeExternalCall ==
    /\ [](\A j \in JobIds :
            InExternalCall(j) =>
               /\ StatusOf(search_jobs, j) = "running"
               /\ status_log[j] = <<"pending", "running">>)
    /\ [][\A j \in JobIds :
            ~InExternalCall(j) /\ InExternalCall(j)'
            => StatusOf(search_jobs', j) # "pending"
         ]_vars

\* a directory job is in its first collector and an e-mail job awaits
\* its domain search, both stored as running
C22_Witness ==
    \E j, k \in JobIds :
        /\ task[j].pc = "fetch" /\ task[j].phase = "yellow_pages"
        /\ search_jobs[j].status = "running"
        /\ task[k].pc = "hunter_wait"
        /\ search_jobs[k].status = "running"

\* the calls that have left _enforce_rate_limit
Recorded(log) == { id \in 1..Len(log) : log[id].dispatched # <<>> }

\* C23: a call of _enforce_rate_limit appends one timestamp, at the step
\* in which it leaves the limiter and never again; a step in which no
\* call leaves appends nothing; a call suspended in a sleep has appended
\* nothing, and the list never holds more entries than calls have left
C23_RecordedOnceAfterChecks ==
    /\ [](\A w \in waiting : w.id \notin Recorded(calls))
    /\ [](Len(request_timestamps) <= Cardinality(Recorded(calls)))
    /\ [][LET left == Recorded(calls') \ Recorded(calls)
              kept == {request_timestamps, Pruned(request_timestamps, now)}
          IN
          /\ Recorded(calls) \subseteq Recorded(calls')
          /\ Cardinality(left) <= 1
          /\ left = {} => request_timestamps' \in kept
          /\ \A id \in left :
                /\ \E ts \in kept :
                      request_timestamps' = Append(ts, calls'[id].issued)
                /\ \A w \in waiting' : w.id # id
         ]_vars

\* a call that slept has left the limiter later than it entered, with its
\* one timestamp appended, while another call is still asleep
C23_Witness ==
    /\ \E id \in Recorded(calls) : calls[id].dispatched[1] > calls[id].issued
    /\ waiting # {}
    /\ Len(request_timestamps) = Cardinality(Recorded(calls))

\* the elements of a list
Elements(seq) == { seq[i] : i \in 1..Len(seq) }

\* the stores that lack an e-mail and have a website
Eligible ==
    { s \in DOMAIN dvd_stores :
        dvd_stores[s].email = NoneV /\ dvd_stores[s].website # NoneV }

\* the step inserts the record of job j for a start request that ran
\* the query of the stores
CreatedFromQuery(j) ==
    /\ email_req # <<>>
    /\ j \notin DOMAIN search_jobs
    /\ j \in DOMAIN search_jobs'

\* the ids of a job never change, its task takes them in the order of
\* the list, one by one from the first, and ends the loop at the last
IteratesOverItsList(j) ==
    /\ j \in DOMAIN search_jobs =>
          search_jobs'[j].parameters = search_jobs[j].parameters
    /\ (task'[j].pc = "email_find" /\ task'[j].idx # task[j].idx) =>
          /\ task'[j].idx = task[j].idx + 1
          /\ task'[j].idx \in 1..Len(search_jobs[j].parameters.store_ids)
    /\ (task[j].pc \in EmailPcs /\ task'[j].pc = "complete") =>
          task[j].idx = Len(search_jobs[j].parameters.store_ids)

\* C24 as stated: the ids of a job started without an id list are the
\* stores that lack an e-mail and have a website when its record is
\* created, and the task iterates over these ids whatever happens to the
\* stores afterwards
C24_SnapshotAtCreation ==
    [][\A j \in JobIds :
          /\ CreatedFromQuery(j) =>
                Elements(search_jobs'[j].parameters.store_ids) = Eligible
          /\ IteratesOverItsList(j)
      ]_vars

\* C24, amended: the ids are the stores (the first 1000 at most) that
\* lack an e-mail and have a website when the start request runs its
\* query, which is before it inserts the job record; the record is
\* created with the list the query returned, and the task iterates over
\* these ids whatever happens to the stores after the query
C24_SnapshotAtQuery ==
    [][/\ (email_req = <<>> /\ email_req' # <<>>) =>
             /\ \A i, k \in 1..Len(email_req'[1]) :
                   i # k => email_req'[1][i] # email_req'[1][k]
             /\ Elements(email_req'[1]) \subseteq Eligible
             /\ \/ Elements(email_req'[1]) = Eligible
                \/ Len(email_req'[1]) = ToListLimit
       /\ \A j \in JobIds :
             /\ CreatedFromQuery(j) =>
                   search_jobs'[j].parameters.store_ids = email_req[1]
             /\ IteratesOverItsList(j)
      ]_vars

\* a job that was started without an id list (no request names store 2
\* alone) has completed its loop over store 2, which was deleted after
\* the query
C24_Witness ==
    \E j \in JobIds :
        /\ j \in DOMAIN search_jobs
        /\ search_jobs[j].job_type = "email_discovery"
        /\ search_jobs[j].parameters.store_ids = <<2>>
        /\ search_jobs[j].status = "completed"
        /\ 2 \notin DOMAIN dvd_stores

\* the records the task of job j has inserted, deleted ones included
InsertedBy(j) == { s \in DOMAIN inserted_by : inserted_by[s] = {j} }

\* the candidate the storage loop of job j is at
CurrentCandidate(j) == task[j].results.stores[task[j].idx]

\* a record with the name and the city of the candidate is stored
Held(candidate) ==
    \E s \in DOMAIN dvd_stores : SameKey(dvd_stores[s], candidate)

\* C25: in the storage loop of a search job the insert of a candidate is
\* issued only when the check found no record with its name and city,
\* and always then when the database does not fail; every insert adds 1
\* to the count and nothing else changes it; the list of candidates is
\* not changed by the loop; the record of a completed job stores as
\* stores_found the number of records the job inserted and as results
\* the whole list of candidates
C25_InsertIffAbsent ==
    [][\A j \in JobIds :
          /\ (task[j].pc = "store_check" /\ task'[j].pc = "store_insert")
                => ~Held(CurrentCandidate(j))
          /\ (task[j].pc = "store_check" /\ task'[j] # task[j] /\ db_reliable)
                => (task'[j].pc = "store_insert" <=> ~Held(CurrentCandidate(j)))
          /\ (task[j].pc = "store_insert" /\ task'[j] # task[j] /\ db_reliable)
                => InsertedBy(j)' # InsertedBy(j)
          /\ task'[j].pc # "done" =>
                task'[j].results.total_found - task[j].results.total_found =
                   Cardinality(InsertedBy(j)' \ InsertedBy(j))
          /\ (task[j].pc \in {"store_check", "store_insert"} /\ task'[j].pc # "done")
                => task'[j].results.stores = task[j].results.stores
          /\ (StatusOf(search_jobs, j) # "completed" /\
              StatusOf(search_jobs', j) = "completed")
                => /\ search_jobs'[j].stores_found = Cardinality(InsertedBy(j))
                   /\ search_jobs'[j].results[1].stores = task[j].results.stores
                   /\ search_jobs'[j].results[1].total_found =
                         search_jobs'[j].stores_found
                   /\ Len(task[j].results.stores) >= search_jobs'[j].stores_found
      ]_vars

\* a directory search has completed: its two collectors produced two
\* candidates with one name and city, the first was inserted, the second
\* dropped, and both are in the results
C25_Witness ==
    \E j \in JobIds :
        /\ StatusOf(search_jobs, j) = "completed"
        /\ search_jobs[j].job_type = "directory_search"
        /\ search_jobs[j].stores_found = 1
        /\ Len(search_jobs[j].results[1].stores) = 2
        /\ Cardinality(InsertedBy(j)) = 1

\* C26: a job record has completed_at set exactly when its status is
\* completed or failed, an error message only when it is failed, and a
\* results summary only when it is completed
C26_FieldsFollowStatus ==
    \A j \in DOMAIN search_jobs :
        /\ search_jobs[j].completed_at # NoneV <=>
              search_jobs[j].status \in Terminal
        /\ search_jobs[j].error_message # NoneV =>
              search_jobs[j].status = "failed"
        /\ search_jobs[j].results # <<>> =>
              search_jobs[j].status = "completed"

\* one job is completed with its summary and timestamp, the other failed
\* with its message and timestamp and without a summary
C26_Witness ==
    \E j, k \in DOMAIN search_jobs :
        /\ search_jobs[j].status = "completed"
        /\ search_jobs[j].results # <<>>
        /\ search_jobs[j].completed_at # NoneV
        /\ search_jobs[j].error_message = NoneV
        /\ search_jobs[k].status = "failed"
        /\ search_jobs[k].error_message # NoneV
        /\ search_jobs[k].completed_at # NoneV
        /\ search_jobs[k].results = <<>>

\* C27: the registry active_jobs holds exactly the jobs whose stored
\* status is pending or running
C27_RegistryMatchesStatus ==
    active_jobs =
       { j \in DOMAIN search_jobs : search_jobs[j].status \notin Terminal }

\* C28: the list of recorded timestamps is in non-decreasing order, and
\* the timestamp a call appends is the time of the step in which it
\* leaves the limiter and its request is sent
C28_SortedDispatchTimes ==
    /\ [](\A i, k \in 1..Len(request_timestamps) :
            i < k => request_timestamps[i] <= request_timestamps[k])
    /\ [][\A id \in Recorded(calls') \ Recorded(calls) :
            request_timestamps'[Len(request_timestamps')] = now
         ]_vars

\* C29: the statistics an answer of GET /stats carries are consistent:
\* no more verified stores and no more stores with an e-mail than stores
C29_StatsConsistent ==
    (/\ reply # <<>>
     /\ reply[1].request = StatsRequest
     /\ reply[1].status = 200)
    => /\ reply[1].body[1].verified_stores <= reply[1].body[1].total_stores
       /\ reply[1].body[1].stores_with_emails <= reply[1].body[1].total_stores

\* the step is the e-mail write of the task of job j taking effect on a
\* stored record
WritesEmail(j) ==
    /\ task[j].pc = "email_write"
    /\ task'[j].results.credits_used = task[j].results.credits_used + 1
    /\ search_jobs[j].parameters.store_ids[task[j].idx] \in DOMAIN dvd_stores

\* C30: when the task of an e-mail job writes the e-mail it found to a
\* store, the e-mail field of that store is empty
C30_NeverOverwritesEmail ==
    [][\A j \in JobIds :
          WritesEmail(j) =>
             dvd_stores[search_jobs[j].parameters.store_ids[task[j].idx]].email
                = NoneV
      ]_vars

====
